---- MODULE Spec2Model ----
(***************************************************************************)
(* Model of the task-graph node (graph.py, class Node) and of the FNDDS    *)
(* data-lookup API (database.py, class FnddsAPI).                          *)
(*                                                                         *)
(* Python values are encoded so that TLC can compare them:                 *)
(*   None            the empty tuple <<>>                                  *)
(*   a str / an int  a one-element tuple, <<"rice">>, <<11>>               *)
(*   an object       a record [kind, id, items]; kind is the Python type,  *)
(*                   id the identity of a Node (0 otherwise), items the    *)
(*                   elements of a list or tuple, or the values() of a     *)
(*                   dict in insertion order (its i-th key is i)           *)
(***************************************************************************)
EXTENDS Integers, Sequences, FiniteSets, TLC

VARIABLES children, parents, log, ncalls, last, tables, dbcall

vars == <<children, parents, log, ncalls, last, tables, dbcall>>

None == <<>>

(***************************************************************************)
(* Bounds of the model.                                                    *)
(***************************************************************************)
\* number of Node objects that exist
NumNodes == 2

\* largest number of children-binding calls in one behaviour
MaxCalls == 2

Nodes == 1 .. NumNodes

\* the keyword name a call may use for a keyed slot
KwNames == {"k"}

(***************************************************************************)
(* Python objects passed to Node.__call__.                                 *)
(***************************************************************************)
NodeObj(n) == [kind |-> "node", id |-> n, items |-> <<>>]

\* an object that is neither a Node nor a list, tuple or dict
IntObj == [kind |-> "int", id |-> 0, items |-> <<>>]

Coll(k, s) == [kind |-> k, id |-> 0, items |-> s]

\* what a collection may contain: a node, a non-node, another collection
Elems == {NodeObj(n) : n \in Nodes} \cup {IntObj, Coll("list", <<NodeObj(1)>>)}

\* the contents of the collections passed: nothing, any one element, or
\* a node followed by a non-node
Contents == {<<>>} \cup {<<e>> : e \in Elems} \cup {<<NodeObj(1), IntObj>>}

\* what a caller may pass in one slot
SlotValues ==
    {NodeObj(n) : n \in Nodes} \cup {IntObj}
        \cup {Coll(k, s) : k \in {"list", "tuple", "dict"}, s \in Contents}

\* what a caller passes in the slots of a call with two slots
PairValues == {NodeObj(1), NodeObj(NumNodes), IntObj}

\* **kwargs: keyword/value pairs in the order they were written
KwargsValues == {<<>>} \cup {<<<<k, v>>>> : k \in KwNames, v \in SlotValues}

\* isinstance(x, Node)
isinstance_Node(x) == x.kind = "node"

\* all(isinstance(i, Node) for i in arg)   /   ... for i in arg.values()
all_Node(s) == \A i \in 1 .. Len(s) : isinstance_Node(s[i])

_invalid_msg == "Invalid argument type. Expected Node or list/tuple/dict of Nodes."

\* a validation that forgets to look inside a dict
CheckSlot_DictUnchecked(arg) ==
    IF isinstance_Node(arg) THEN "none"
    ELSE IF arg.kind \in {"list", "tuple"}
         THEN IF all_Node(arg.items) THEN "none" ELSE "AssertionError"
    ELSE IF arg.kind = "dict" THEN "none"
    ELSE "ValueError"

\* graph.py 132-141 / 145-154: the validation of one slot value; the
\* exception it raises, "none" when the value is accepted
CheckSlot(arg) ==
    IF isinstance_Node(arg) THEN "none"
    ELSE IF arg.kind \in {"list", "tuple"}
         THEN IF all_Node(arg.items) THEN "none" ELSE "AssertionError"
    ELSE IF arg.kind = "dict"
         THEN IF all_Node(arg.items) THEN "none" ELSE "AssertionError"
    ELSE "ValueError"

\* graph.py 130-141: the loop over *args, appending to _args until a slot raises
RECURSIVE ArgsLoop(_, _)
ArgsLoop(args, _args) ==
    IF args = <<>> THEN [err |-> "none", out |-> _args]
    ELSE IF CheckSlot(Head(args)) # "none"
         THEN [err |-> CheckSlot(Head(args)), out |-> _args]
    ELSE ArgsLoop(Tail(args), Append(_args, Head(args)))

\* graph.py 143-154: the loop over **kwargs, filling _kwargs until a slot raises
RECURSIVE KwargsLoop(_, _)
KwargsLoop(kwargs, _kwargs) ==
    IF kwargs = <<>> THEN [err |-> "none", out |-> _kwargs]
    ELSE IF CheckSlot(Head(kwargs)[2]) # "none"
         THEN [err |-> CheckSlot(Head(kwargs)[2]), out |-> _kwargs]
    ELSE KwargsLoop(Tail(kwargs), Append(_kwargs, Head(kwargs)))

\* a binding that keeps the slots of the binding it replaces
NewChildren_Keep(old, _args, _kwargs) ==
    IF old = None THEN <<_args, _kwargs>>
    ELSE <<old[1] \o _args, old[2] \o _kwargs>>

\* graph.py 156: self._children = (_args, _kwargs)
NewChildren(old, _args, _kwargs) == <<_args, _kwargs>>

\* graph.py 126-127: the number of overwrite warnings one call logs
OverwriteWarnings(c) == IF c # None THEN 1 ELSE 0

(***************************************************************************)
(* The state after construction.                                           *)
(***************************************************************************)
NoCall ==
    [op |-> "init", node |-> 0, args |-> <<>>, kwargs |-> <<>>,
     bound |-> FALSE, err |-> "none", msg |-> "", ret |-> None]

NoLookup ==
    [method |-> "init", alias |-> None, food_code |-> None, food_name |-> None,
     exc |-> "none", val |-> None]

\* database.py 73-77: every lookup table is None after construction
NoTables ==
    [_alias_to_food_code |-> None, _food_code_to_food_name |-> None,
     _food_name_to_alias |-> None, _nutrient_header |-> None,
     _food_unit_by_food_code |-> None]

Init ==
    /\ children = [n \in Nodes |-> None]
    /\ parents = [n \in Nodes |-> None]
    /\ log = 0
    /\ ncalls = 0
    /\ last = NoCall
    /\ tables = NoTables
    /\ dbcall = NoLookup

(***************************************************************************)
(* Node.__call__(self, *args, **kwargs), graph.py 112-158.                 *)
(***************************************************************************)
Call(n, args, kwargs) ==
    LET a == ArgsLoop(args, <<>>)
        k == IF a.err = "none" THEN KwargsLoop(kwargs, <<>>)
             ELSE [err |-> a.err, out |-> <<>>]
    IN  /\ ncalls' = ncalls + 1
        /\ log' = log + OverwriteWarnings(children[n])
        /\ IF k.err = "none"
           THEN /\ children' =
                     [children EXCEPT ![n] = NewChildren(children[n], a.out, k.out)]
                /\ last' = [op |-> "call", node |-> n, args |-> args,
                            kwargs |-> kwargs, bound |-> children[n] # None,
                            err |-> "none", msg |-> "", ret |-> <<n>>]
           ELSE /\ children' = children
                /\ last' = [op |-> "call", node |-> n, args |-> args,
                            kwargs |-> kwargs, bound |-> children[n] # None,
                            err |-> k.err, msg |-> _invalid_msg, ret |-> None]
        /\ UNCHANGED <<parents, tables, dbcall>>

\* Node.get_children(self), graph.py 161-165: the body is `pass`
get_children(n) == None

GetChildren(n) ==
    /\ last' = [op |-> "get_children", node |-> n, args |-> <<>>,
                kwargs |-> <<>>, bound |-> children[n] # None,
                err |-> "none", msg |-> "", ret |-> get_children(n)]
    /\ UNCHANGED <<children, parents, log, ncalls, tables, dbcall>>

\* the (*args, **kwargs) a caller may pass in one call: no slot, one
\* positional or keyed slot, two positional slots, or one of each
CallInputs ==
    {<<<<>>, kw>> : kw \in KwargsValues}
        \cup {<<<<v>>, <<>>>> : v \in SlotValues}
        \cup {<<<<v, w>>, <<>>>> : v \in PairValues, w \in PairValues}
        \cup {<<<<v>>, <<<<k, w>>>>>> : v \in PairValues, w \in PairValues, k \in KwNames}

BindCall ==
    /\ ncalls < MaxCalls
    /\ \E n \in Nodes, c \in CallInputs : Call(n, c[1], c[2])

ChildrenQuery == \E n \in Nodes : GetChildren(n)

Next == BindCall \/ ChildrenQuery

Spec == Init /\ [][Next]_vars

(***************************************************************************)
(* FnddsAPI, database.py 59-135.  A lookup ends in a record [exc, val]:    *)
(* the exception it raises ("none" when it returns) and the value.         *)
(***************************************************************************)
Return(v) == [exc |-> "none", val |-> v]

Raise(e) == [exc |-> e, val |-> None]

\* table.get(key): None has no attribute get; a dict answers None for a
\* key it does not hold
DictGet(table, key) ==
    IF table = None THEN Raise("AttributeError")
    ELSE IF key \in DOMAIN table THEN Return(table[key]) ELSE Return(None)

\* Python truth of a str argument: None and "" are false
Truthy(x) == x # None /\ x # <<"">>

\* database.py 90-98
get_food_code(alias, food_name) ==
    IF Truthy(alias) THEN DictGet(tables._alias_to_food_code, alias)
    ELSE IF Truthy(food_name)
         THEN LET a == DictGet(tables._food_name_to_alias, food_name)
              IN  IF a.exc # "none" THEN a
                  ELSE DictGet(tables._alias_to_food_code, a.val)
    ELSE Raise("ValueError")

\* database.py 100-109
get_food_name(alias, food_code) ==
    IF alias # None
    THEN LET c == DictGet(tables._alias_to_food_code, alias)
         IN  IF c.exc # "none" THEN c
             ELSE DictGet(tables._food_code_to_food_name, c.val)
    ELSE IF food_code # None
         THEN DictGet(tables._food_code_to_food_name, food_code)
    ELSE Raise("ValueError")

\* database.py 111-120
get_food_alias(food_code, food_name) ==
    IF food_code # None
    THEN LET m == DictGet(tables._food_code_to_food_name, food_code)
         IN  IF m.exc # "none" THEN m
             ELSE DictGet(tables._food_name_to_alias, m.val)
    ELSE IF food_name # None
         THEN DictGet(tables._food_name_to_alias, food_name)
    ELSE Raise("ValueError")

\* database.py 122-126
get_food_unit(alist, food_code, food_name) ==
    IF food_code = None
    THEN LET c == get_food_code(alist, food_name)
         IN  IF c.exc # "none" THEN c
             ELSE DictGet(tables._food_unit_by_food_code, c.val)
    ELSE DictGet(tables._food_unit_by_food_code, food_code)

\* database.py 135: FnddsAPI defines no method _get_food_nutrient_series
_get_food_nutrient_series(food_code) == Raise("AttributeError")

\* database.py 128-135
get_food_nutrient_series(alias, food_code, food_name) ==
    IF food_code = None
    THEN LET c == get_food_code(alias, food_name)
         IN  IF c.exc # "none" THEN c
             ELSE _get_food_nutrient_series(c.val)
    ELSE _get_food_nutrient_series(food_code)

\* the arguments a caller may pass to a lookup; None is "not supplied"
Aliases == {None, <<"">>, <<"rice">>, <<"beef">>}

FoodNames == {None, <<"">>, <<"Rice, white">>, <<"Beef, ground">>}

FoodCodes == {None, <<0>>, <<11>>, <<12>>}

Lookup(m, alias, food_code, food_name, r) ==
    /\ dbcall' = [method |-> m, alias |-> alias, food_code |-> food_code,
                  food_name |-> food_name, exc |-> r.exc, val |-> r.val]
    /\ UNCHANGED <<children, parents, log, ncalls, last, tables>>

GetFoodCode ==
    \E a \in Aliases, f \in FoodNames :
        Lookup("get_food_code", a, None, f, get_food_code(a, f))

GetFoodName ==
    \E a \in Aliases, c \in FoodCodes :
        Lookup("get_food_name", a, c, None, get_food_name(a, c))

GetFoodAlias ==
    \E c \in FoodCodes, f \in FoodNames :
        Lookup("get_food_alias", None, c, f, get_food_alias(c, f))

GetFoodUnit ==
    \E a \in Aliases, c \in FoodCodes, f \in FoodNames :
        Lookup("get_food_unit", a, c, f, get_food_unit(a, c, f))

GetFoodNutrientSeries ==
    \E a \in Aliases, c \in FoodCodes, f \in FoodNames :
        Lookup("get_food_nutrient_series", a, c, f,
               get_food_nutrient_series(a, c, f))

NextDb ==
    \/ GetFoodCode
    \/ GetFoodName
    \/ GetFoodAlias
    \/ GetFoodUnit
    \/ GetFoodNutrientSeries

SpecDb == Init /\ [][NextDb]_vars

(***************************************************************************)
(* The graph the bindings describe, as the claims speak of it.             *)
(***************************************************************************)
\* the slot values of a binding, positional slots first, then keyed slots
Slots(b) == b[1] \o [i \in 1 .. Len(b[2]) |-> b[2][i][2]]

\* the nodes a slot value refers to, in order
SlotSeq(v) == IF v.kind = "node" THEN <<v>> ELSE v.items

RECURSIVE FlattenSlots(_)
FlattenSlots(ss) ==
    IF ss = <<>> THEN <<>> ELSE SlotSeq(Head(ss)) \o FlattenSlots(Tail(ss))

\* a sequence without the later occurrences of an element
RECURSIVE Distinct(_, _)
Distinct(s, seen) ==
    IF s = <<>> THEN <<>>
    ELSE IF Head(s) \in seen THEN Distinct(Tail(s), seen)
    ELSE <<Head(s)>> \o Distinct(Tail(s), seen \cup {Head(s)})

\* the ids of the nodes that occur in some slot of n's current binding
ChildNodes(n) ==
    IF children[n] = None THEN {}
    ELSE LET f == FlattenSlots(Slots(children[n]))
         IN  {f[i].id : i \in {j \in 1 .. Len(f) : f[j].kind = "node"}}

\* b is reachable from a through at most k children edges, k >= 1
RECURSIVE ReachWithin(_, _, _)
ReachWithin(a, b, k) ==
    \/ b \in ChildNodes(a)
    \/ /\ k > 1
       /\ \E c \in ChildNodes(a) : ReachWithin(c, b, k - 1)

Reaches(a, b) == ReachWithin(a, b, NumNodes)

ParentSet(c) == IF parents[c] = None THEN {} ELSE parents[c]

\* a slot value that is neither a node nor a flat collection of nodes
InvalidSlot(v) ==
    ~ \/ v.kind = "node"
      \/ /\ v.kind \in {"list", "tuple", "dict"}
         /\ \A i \in 1 .. Len(v.items) : v.items[i].kind = "node"

HasInvalidSlot(args, kwargs) ==
    \/ \E i \in 1 .. Len(args) : InvalidSlot(args[i])
    \/ \E i \in 1 .. Len(kwargs) : InvalidSlot(kwargs[i][2])

\* the step is a children-binding call
CallStep == ncalls' = ncalls + 1

(***************************************************************************)
(* Claims.                                                                 *)
(***************************************************************************)
\* C1: after any sequence of children-binding calls the graph formed by
\* the children edges is acyclic: no node is reachable from itself.
C1_Acyclic == \A n \in Nodes : ~ Reaches(n, n)

\* C2: a children-binding call with a slot value that is neither a node nor
\* a flat list, tuple or dict of nodes (a collection holding a collection
\* included) is rejected at that call with the invalid-argument-type error:
\* it raises, returns nothing and does not store the binding.
C2_InvalidRejected ==
    (last.op = "call" /\ HasInvalidSlot(last.args, last.kwargs)) =>
        /\ last.err \in {"ValueError", "AssertionError"}
        /\ last.msg = _invalid_msg
        /\ last.ret = None
        /\ children[last.node] # <<last.args, last.kwargs>>

\* a call that passed a collection holding another collection was rejected
C2_Witness ==
    /\ last.op = "call"
    /\ last.err # "none"
    /\ \E i \in 1 .. Len(Slots(<<last.args, last.kwargs>>)) :
          LET v == Slots(<<last.args, last.kwargs>>)[i]
          IN  /\ v.kind \in {"list", "tuple", "dict"}
              /\ \E j \in 1 .. Len(v.items) : v.items[j].kind = "list"

\* C3: node P is in the parents of node C exactly when C occurs in some
\* slot of P's current children binding.
C3_ParentsConsistent ==
    \A p, c \in Nodes : (p \in ParentSet(c)) <=> (c \in ChildNodes(p))

\* the identifying parameters a lookup call supplied
Supplied(d) ==
    {x \in {"alias", "food_code", "food_name"} :
        \/ x = "alias" /\ d.alias # None
        \/ x = "food_code" /\ d.food_code # None
        \/ x = "food_name" /\ d.food_name # None}

\* C4: every data-lookup call that supplies zero or more than one of its
\* identifying parameters fails with an input error (ValueError).
C4_ExactlyOneIdentifier ==
    (dbcall.method # "init" /\ Cardinality(Supplied(dbcall)) # 1) =>
        dbcall.exc = "ValueError"

\* C8: a valid children-binding call on a node that is already bound
\* succeeds, returns the node, logs exactly one overwrite warning and leaves
\* the node with exactly the positional and keyed slots of that call.
C8_RebindReplaces ==
    [][(/\ CallStep
        /\ children[last'.node] # None
        /\ ~ HasInvalidSlot(last'.args, last'.kwargs))
       => /\ last'.err = "none"
          /\ last'.ret = <<last'.node>>
          /\ log' = log + 1
          /\ children'[last'.node] = <<last'.args, last'.kwargs>>]_vars

\* a bound node was bound again, to slots other than none at all
C8_Witness ==
    /\ last.op = "call"
    /\ last.bound
    /\ last.err = "none"
    /\ log >= 1
    /\ Len(last.args) + Len(last.kwargs) >= 1
    /\ children[last.node] = <<last.args, last.kwargs>>

\* C9: for a node with a children binding, get_children returns the child
\* nodes of all slots flattened in slot order, each distinct node once.
C9_GetChildrenFlattens ==
    (last.op = "get_children" /\ children[last.node] # None) =>
        /\ last.ret # None
        /\ last.ret[1] = Distinct(FlattenSlots(Slots(children[last.node])), {})

\* C10: a children-binding call that is rejected leaves every binding as
\* it was and logs no overwrite warning.
C10_RejectedNoEffect ==
    [][(CallStep /\ last'.err # "none")
       => (children' = children /\ log' = log)]_vars

====
